---- MODULE Spec2Model ----
(***************************************************************************)
(* Coin selection of blockchain-wallet-v4 (coinSelection/index.js):        *)
(* the size estimator getByteCount, the target-matching core findTarget,   *)
(* the strategies built on it and the branch-and-bound search.             *)
(***************************************************************************)
EXTENDS Integers, Sequences, FiniteSets, TLC

(***************************************************************************)
(* JavaScript numbers.  A number is an integer or NaN; NaN is absorbing    *)
(* for + and *.  A table lookup that yields undefined is used only as a    *)
(* factor, where undefined behaves as NaN.                                 *)
(***************************************************************************)
NaN == [nan |-> TRUE, v |-> 0]

Num(n) == [nan |-> FALSE, v |-> n]

NumAdd(a, b) == IF a.nan \/ b.nan THEN NaN ELSE Num(a.v + b.v)

NumMul(a, b) == IF a.nan \/ b.nan THEN NaN ELSE Num(a.v * b.v)

\* Math.ceil(w / 4); weights are never negative
NumCeilDiv4(a) == IF a.nan THEN NaN ELSE Num((a.v + 3) \div 4)

(***************************************************************************)
(* Type-count maps.  A map is the sequence of its entries in key order     *)
(* (Object.keys order: insertion order for these keys).  A key is the tag  *)
(* before the first ':' and the list of the ':'-separated parts after it,  *)
(* each part the list of parseInt results of its '-'-separated items.      *)
(* A count is an integer, a fractional number or a number above            *)
(* Number.MAX_SAFE_INTEGER.                                                *)
(***************************************************************************)
Key(tag, rest) == [tag |-> tag, rest |-> rest]

PlainKey(tag) == Key(tag, <<>>)

IntCount(n) == [kind |-> "int", v |-> n]

FracCount == [kind |-> "frac", v |-> 0]

BigCount == [kind |-> "big", v |-> 0]

Entry(key, count) == [key |-> key, count |-> count]

\* key.slice(0, 8) === 'MULTISIG'
StartsWithMULTISIG(key) ==
  key.tag \in {"MULTISIG-P2SH", "MULTISIG-P2WSH", "MULTISIG-P2SH-P2WSH", "MULTISIG-P2TR"}

\* key.indexOf('W') >= 0
ContainsW(key) ==
  key.tag \in {"P2WPKH", "P2SH-P2WPKH", "P2WSH", "MULTISIG-P2WSH", "MULTISIG-P2SH-P2WSH"}

\* IO_TYPES.inputs[name]: the weight, undefined (NaN as a factor) when absent
IO_TYPES_inputs(name) ==
  CASE name = "MULTISIG-P2SH" -> Num(49 * 4)
    [] name = "MULTISIG-P2WSH" -> Num(6 + 41 * 4)
    [] name = "MULTISIG-P2SH-P2WSH" -> Num(6 + 76 * 4)
    [] name = "P2PKH" -> Num(147 * 4)
    [] name = "P2WPKH" -> Num(108 + 41 * 4)
    [] name = "P2SH-P2WPKH" -> Num(108 + 64 * 4)
    [] OTHER -> NaN

\* IO_TYPES.outputs[name]
IO_TYPES_outputs(name) ==
  CASE name = "P2SH" -> Num(32 * 4)
    [] name = "P2SH-P2WPKH" -> Num(32 * 4)
    [] name = "P2PKH" -> Num(34 * 4)
    [] name = "P2WPKH" -> Num(31 * 4)
    [] name = "P2WSH" -> Num(43 * 4)
    [] OTHER -> NaN

\* a whole key as a property name: only a key without ':' parts is a tag
InputWeightOfKey(key) == IF key.rest = <<>> THEN IO_TYPES_inputs(key.tag) ELSE NaN

OutputWeightOfKey(key) == IF key.rest = <<>> THEN IO_TYPES_outputs(key.tag) ELSE NaN

\* checkUInt53 throws
checkUInt53Throws(n) == n.kind # "int" \/ n.v < 0

\* the count as a factor (only used after checkUInt53 passed)
CountNum(n) == Num(n.v)

\* The 9-byte case needs a count above 0xffffffff, beyond the integers of
\* the model: every modelled count that passes checkUInt53 is below it.
varIntLength(number) ==
  IF number < 253 THEN 1 ELSE IF number <= 65535 THEN 3 ELSE 5

\* mAndN[i] of keyParts[1].split('-').map(parseInt); undefined past the end
MAndN(key, i) == IF Len(key.rest[1]) >= i THEN key.rest[1][i] ELSE NaN

\* the weight one input key adds to totalWeight
InputKeyWeight(key, count) ==
  IF StartsWithMULTISIG(key)
  THEN LET multiplyer == IF key.tag = "MULTISIG-P2SH" THEN 4 ELSE 1
       IN  NumAdd(NumMul(IO_TYPES_inputs(key.tag), CountNum(count)),
                  NumMul(NumMul(NumAdd(NumMul(Num(73), MAndN(key, 1)),
                                       NumMul(Num(34), MAndN(key, 2))),
                                Num(multiplyer)),
                         CountNum(count)))
  ELSE NumMul(InputWeightOfKey(key), CountNum(count))

\* does the inputs loop body throw on this entry, and what
InputKeyThrows(e) ==
  IF checkUInt53Throws(e.count) THEN "RangeError"
  ELSE IF StartsWithMULTISIG(e.key) /\ 1 + Len(e.key.rest) # 2 THEN "Error"
  ELSE "none"

\* hasWitness after an input key
InputSetsWitness(key) == ContainsW(key)

GbcStart ==
  [threw |-> "none", totalWeight |-> Num(0), hasWitness |-> FALSE,
   inputCount |-> 0, outputCount |-> 0]

\* one iteration of Object.keys(inputs).forEach
GbcInputStep(acc, e) ==
  IF acc.threw # "none" THEN acc
  ELSE IF InputKeyThrows(e) # "none" THEN [acc EXCEPT !.threw = InputKeyThrows(e)]
  ELSE [acc EXCEPT !.totalWeight = NumAdd(@, InputKeyWeight(e.key, e.count)),
                   !.inputCount = @ + e.count.v,
                   !.hasWitness = @ \/ InputSetsWitness(e.key)]

\* one iteration of Object.keys(outputs).forEach
GbcOutputStep(acc, e) ==
  IF acc.threw # "none" THEN acc
  ELSE IF checkUInt53Throws(e.count) THEN [acc EXCEPT !.threw = "RangeError"]
  ELSE [acc EXCEPT !.totalWeight =
                      NumAdd(@, NumMul(OutputWeightOfKey(e.key), CountNum(e.count))),
                   !.outputCount = @ + e.count.v]

RECURSIVE GbcInputs(_, _)
GbcInputs(acc, es) ==
  IF es = <<>> THEN acc ELSE GbcInputs(GbcInputStep(acc, Head(es)), Tail(es))

RECURSIVE GbcOutputs(_, _)
GbcOutputs(acc, es) ==
  IF es = <<>> THEN acc ELSE GbcOutputs(GbcOutputStep(acc, Head(es)), Tail(es))

\* a return that leaves the witness overhead out
WitnessOverheadDropped(hasWitness) == 0

\* the witness marker/flag overhead
WitnessOverhead(hasWitness) == IF hasWitness THEN 2 ELSE 0

\* totalWeight at the return: the witness overhead, the 8 fixed bytes and
\* the two counts' varints added
FinalWeight(acc) ==
  NumAdd(NumAdd(NumAdd(NumAdd(acc.totalWeight, Num(WitnessOverhead(acc.hasWitness))),
                       Num(8 * 4)),
                Num(varIntLength(acc.inputCount) * 4)),
         Num(varIntLength(acc.outputCount) * 4))

GbcReturn(hasWitness, totalWeight) ==
  [threw |-> "none", ret |-> NumCeilDiv4(totalWeight), totalWeight |-> totalWeight,
   hasWitness |-> hasWitness]

GbcOutcome(acc) ==
  IF acc.threw # "none"
  THEN [threw |-> acc.threw, ret |-> NaN, totalWeight |-> acc.totalWeight,
        hasWitness |-> acc.hasWitness]
  ELSE GbcReturn(acc.hasWitness, FinalWeight(acc))

\* getByteCount: what it throws, or the value it returns, with its locals
getByteCount(inputs, outputs) ==
  GbcOutcome(GbcOutputs(GbcInputs(GbcStart, inputs), outputs))

(***************************************************************************)
(* Coins.  coin.js is not part of the sources at hand: a coin is its       *)
(* value, its script type and its address, and the byte costs are those    *)
(* the specification gives (the P2PKH-equivalent sizes of the IO table).   *)
(***************************************************************************)
Coin(value, type, address) == [value |-> value, type |-> type, address |-> address]

\* the coin {} : no type, hence 'P2PKH'
EmptyCoin == Coin(0, "P2PKH", "")

TX_OUTPUT_BASE == 9

TX_OUTPUT_PUBKEYHASH == 25

\* Coin.inputBytes
InputBytes(coin) == IO_TYPES_inputs(coin.type).v \div 4

\* Coin.outputBytes
OutputBytes(coin) == IO_TYPES_outputs(coin.type).v \div 4

\* Coin.effectiveValue(feePerByte, coin)
effectiveValue(feePerByte, coin) == coin.value - InputBytes(coin) * feePerByte

\* List(coins).fold(Coin.empty).value
RECURSIVE SumValues(_)
SumValues(cs) == IF cs = <<>> THEN 0 ELSE Head(cs).value + SumValues(Tail(cs))

\* filter(c => Coin.effectiveValue(feePerByte, c) > 0, coins)
RECURSIVE effectiveCoins(_, _)
effectiveCoins(feePerByte, cs) ==
  IF cs = <<>> THEN <<>>
  ELSE IF effectiveValue(feePerByte, Head(cs)) > 0
       THEN <<Head(cs)>> \o effectiveCoins(feePerByte, Tail(cs))
       ELSE effectiveCoins(feePerByte, Tail(cs))

dustThreshold(feeRate) == (InputBytes(EmptyCoin) + OutputBytes(EmptyCoin)) * feeRate

\* coinTypeReducer: acc[type] += 1, or acc[type] = 1 for a new type
coinTypeReducer(acc, coin) ==
  IF \E i \in 1..Len(acc) : acc[i].key = PlainKey(coin.type)
  THEN [i \in 1..Len(acc) |->
          IF acc[i].key = PlainKey(coin.type)
          THEN Entry(acc[i].key, IntCount(acc[i].count.v + 1))
          ELSE acc[i]]
  ELSE Append(acc, Entry(PlainKey(coin.type), IntCount(1)))

RECURSIVE TypeCollection(_, _)
TypeCollection(acc, cs) ==
  IF cs = <<>> THEN acc ELSE TypeCollection(coinTypeReducer(acc, Head(cs)), Tail(cs))

\* the types of the modelled coins and targets are all in the IO table, so
\* getByteCount returns an integer here
transactionBytes(inputs, outputs) ==
  getByteCount(TypeCollection(<<>>, inputs), TypeCollection(<<>>, outputs)).ret.v

changeBytes == TX_OUTPUT_BASE + TX_OUTPUT_PUBKEYHASH

\* clamp(0, Infinity, x)
Clamp0(x) == IF x < 0 THEN 0 ELSE x

\* effectiveBalance(feePerByte, inputs).value, outputs defaulting to [{}]
effectiveBalance(feePerByte, inputs) ==
  Clamp0(SumValues(inputs) - transactionBytes(inputs, <<EmptyCoin>>) * feePerByte)

Selection(fee, inputs, outputs) == [fee |-> fee, inputs |-> inputs, outputs |-> outputs]

(***************************************************************************)
(* findTarget.  The unfold seed is (acc, fee, rest).                       *)
(***************************************************************************)
\* a _findTarget that compares the total with the target alone, not with the
\* target plus the fee
findTargetStopsAtTarget(target, feePerByte, s) ==
  \/ s.rest = <<>>
  \/ s.acc > target

\* _findTarget returns false
findTargetStops(target, feePerByte, s) ==
  \/ s.rest = <<>>
  \/ s.acc > target + s.fee
  \/ s.acc > target + (s.fee + InputBytes(Head(s.rest)) * feePerByte)

\* the seed _findTarget returns otherwise, with the coin it took
findTargetNext(feePerByte, s) ==
  [acc |-> s.acc + Head(s.rest).value,
   fee |-> s.fee + InputBytes(Head(s.rest)) * feePerByte,
   coin |-> Head(s.rest),
   rest |-> Tail(s.rest)]

\* unfold(_findTarget, seed): the elements (nextAcc, partialFee, newCoin)
RECURSIVE unfold(_, _, _)
unfold(target, feePerByte, s) ==
  IF findTargetStops(target, feePerByte, s) THEN <<>>
  ELSE LET nx == findTargetNext(feePerByte, s)
       IN  <<[acc |-> nx.acc, fee |-> nx.fee, coin |-> nx.coin]>>
             \o unfold(target, feePerByte, [acc |-> nx.acc, fee |-> nx.fee, rest |-> nx.rest])

\* a change test that burns an extra worth exactly the dust threshold
AddsChangeAboveDust(extraWithChangeFee, feePerByte) ==
  extraWithChangeFee > dustThreshold(feePerByte)

\* is a change output emitted
AddsChange(extraWithChangeFee, feePerByte) == extraWithChangeFee >= dustThreshold(feePerByte)

\* a burn branch that leaves extra out of the fee
BurnFeeWithoutExtra(fee, extra) == fee

\* the fee of the burn branch
BurnFee(fee, extra) == fee + extra

\* the Selection when the target is funded, extra = maxBalance - target - fee
FundedSelection(targets, feePerByte, changeAddress, selectedCoins, fee, extra) ==
  IF AddsChange(extra - changeBytes * feePerByte, feePerByte)
  THEN Selection(fee + changeBytes * feePerByte, selectedCoins,
                 Append(targets,
                        Coin(extra - changeBytes * feePerByte, "P2PKH", changeAddress)))
  ELSE Selection(BurnFee(fee, extra), selectedCoins, targets)

\* maxBalance < target + fee
IsUnderfunded(maxBalance, target, fee) == maxBalance < target + fee

\* a failure that reports no fee
FailedSelectionWithoutFee(fee, targets) == Selection(0, <<>>, targets)

\* not enough money to satisfy target
FailedSelection(fee, targets) == Selection(fee, <<>>, targets)

\* no coins to select
EmptySelection == Selection(0, <<>>, <<>>)

\* the Selection of a non-empty unfold
SelectionOf(targets, feePerByte, changeAddress, target, maxBalance, fee, selectedCoins) ==
  IF IsUnderfunded(maxBalance, target, fee)
  THEN FailedSelection(fee, targets)
  ELSE FundedSelection(targets, feePerByte, changeAddress, selectedCoins, fee,
                       maxBalance - target - fee)

\* map(e => e[2], selection)
SelectedCoins(selection) == [i \in 1..Len(selection) |-> selection[i].coin]

ftOfUnfold(targets, feePerByte, changeAddress, target, selection) ==
  IF selection = <<>>
  THEN EmptySelection
  ELSE SelectionOf(targets, feePerByte, changeAddress, target,
                   selection[Len(selection)].acc, selection[Len(selection)].fee,
                   SelectedCoins(selection))

ft(targets, feePerByte, coins, changeAddress) ==
  ftOfUnfold(targets, feePerByte, changeAddress, SumValues(targets),
             unfold(SumValues(targets), feePerByte,
                    [acc |-> 0,
                     fee |-> transactionBytes(<<>>, targets) * feePerByte,
                     rest |-> effectiveCoins(feePerByte, coins)]))

\* selectAll on the effective coins and their effective balance
SweepSelection(eff, effBalance, outAddress) ==
  Selection(SumValues(eff) - effBalance, eff, <<Coin(effBalance, "P2PKH", outAddress)>>)

SweepOf(feePerByte, eff, outAddress) ==
  SweepSelection(eff, effectiveBalance(feePerByte, eff), outAddress)

selectAll(feePerByte, coins, outAddress) ==
  SweepOf(feePerByte, effectiveCoins(feePerByte, coins), outAddress)

(***************************************************************************)
(* Random sources.  A seed is absent (not a string) or names a stream of   *)
(* the seeded generator; a value k stands for the number k / RngDen of     *)
(* [0, 1).  Math.random is a free choice at every call.                    *)
(***************************************************************************)
RngVals == {0, 1, 2}

RngDen == Cardinality(RngVals)

NoSeed == [seeded |-> FALSE, stream |-> <<>>]

Seeded(stream) == [seeded |-> TRUE, stream |-> stream]

\* the i-th value of seedrandom(seed)
Rng(s, i) == s.stream[((i - 1) % Len(s.stream)) + 1]

\* fisher-yates: for i = n-1 down to 1, swap a[i] with a[floor(r * (i + 1))],
\* r the next value of the source; draws[k] is the k-th value drawn
RECURSIVE shuffleFrom(_, _, _)
shuffleFrom(a, i, draws) ==
  IF i < 1 THEN a
  ELSE LET k == Len(a) - i
           j == (draws[k] * (i + 1)) \div RngDen
           swapped == [a EXCEPT ![i + 1] = a[j + 1], ![j + 1] = a[i + 1]]
       IN  shuffleFrom(swapped, i - 1, draws)

shuffle(a, draws) == shuffleFrom(a, Len(a) - 1, draws)

\* the values shuffle draws: from the seeded generator, or from Math.random
ShuffleDraws(s, n) ==
  IF s.seeded THEN {[k \in 1..n |-> Rng(s, k)]} ELSE [1..n -> RngVals]

NumDraws(a) == IF Len(a) = 0 THEN 0 ELSE Len(a) - 1

\* shuffle(coins, rng): the orders it can return
ShuffleOutcomes(coins, s) == {shuffle(coins, d) : d \in ShuffleDraws(s, NumDraws(coins))}

\* Math.random calls of one shuffle
ShuffleMathRandomCalls(coins, s) == IF s.seeded THEN 0 ELSE NumDraws(coins)

(***************************************************************************)
(* sort with the comparators (a, b) => a.lte(b) and (a, b) => b.lte(a):    *)
(* they return a boolean, never a negative number, and what Array.sort     *)
(* does with such a comparator is up to the engine.  The engines either    *)
(* leave the array as it is or order it (descending for a.lte(b)).         *)
(***************************************************************************)
RECURSIVE InsertDesc(_, _)
InsertDesc(c, sorted) ==
  IF sorted = <<>> THEN <<c>>
  ELSE IF c.value >= Head(sorted).value THEN <<c>> \o sorted
       ELSE <<Head(sorted)>> \o InsertDesc(c, Tail(sorted))

RECURSIVE SortDesc(_)
SortDesc(cs) == IF cs = <<>> THEN <<>> ELSE InsertDesc(Head(cs), SortDesc(Tail(cs)))

RECURSIVE InsertAsc(_, _)
InsertAsc(c, sorted) ==
  IF sorted = <<>> THEN <<c>>
  ELSE IF c.value <= Head(sorted).value THEN <<c>> \o sorted
       ELSE <<Head(sorted)>> \o InsertAsc(c, Tail(sorted))

RECURSIVE SortAsc(_)
SortAsc(cs) == IF cs = <<>> THEN <<>> ELSE InsertAsc(Head(cs), SortAsc(Tail(cs)))

\* sort((a, b) => a.lte(b), coins)
SortLte(cs) == {cs, SortDesc(cs)}

\* sort((a, b) => b.lte(a), coins)
SortGte(cs) == {cs, SortAsc(cs)}

(***************************************************************************)
(* Branch and bound.  The recursion of _branchAndBound is a stack of       *)
(* frames (depth, currentSelection, effValue); a frame is about to run     *)
(* the body ("call") or waits for its first recursive call ("include",     *)
(* "exclude").  The second recursive call is in return position and        *)
(* takes the frame's place.                                                *)
(***************************************************************************)
BNB_TRIES == 1000000

Frame(depth, sel, eff, stage) ==
  [depth |-> depth, currentSelection |-> sel, effValue |-> eff, stage |-> stage]

TargetForMatch(targets, feePerByte) ==
  SumValues(targets) + transactionBytes(<<>>, targets) * feePerByte

MatchRange(feePerByte) == dustThreshold(feePerByte)

\* effValue > targetForMatch + matchRange
CutBranch(effValue, tfm, range) == effValue > tfm + range

\* a match test that misses the exact total
IsMatchAbove(effValue, tfm) == effValue > tfm

\* effValue >= targetForMatch
IsMatch(effValue, tfm) == effValue >= tfm

\* a budget test that lets one more call recurse
MaxTriesReachedBelowZero(tries) == tries < 0

\* bnbTries < 1
MaxTriesReached(tries) == tries < 1

\* depth >= length(sortedCoins)
EndOfBranch(depth, sorted) == depth >= Len(sorted)

\* (rng && rng()) is truthy: a seeded generator whose next value is not 0
RngTruthy(s, calls) == s.seeded /\ Rng(s, calls + 1) # 0

\* (rng && rng()) || Math.random() > 0.5, m the outcome of Math.random() > 0.5
IncludeFirst(s, calls, m) == RngTruthy(s, calls) \/ m

\* the frame of the include call and of the exclude call of a node
IncludeCall(f, sorted, feePerByte) ==
  Frame(f.depth + 1,
        Append(f.currentSelection, sorted[f.depth + 1]),
        f.effValue + effectiveValue(feePerByte, sorted[f.depth + 1]),
        "call")

ExcludeCall(f) == Frame(f.depth + 1, f.currentSelection, f.effValue, "call")

\* the Selection of a match
MatchSelection(bnbSelection, targets) ==
  Selection(SumValues(bnbSelection) - SumValues(targets), bnbSelection, targets)

(***************************************************************************)
(* The calls.  The arguments are drawn from small sets; every value is a   *)
(* number of satoshi and every fee rate a number of satoshi per byte.      *)
(***************************************************************************)
MaxCoins == 2

MaxTargets == 1

MaxFeeRate == 1

SmallBudget == 3

MaxInputKeys == 2

CoinValues == {0, 100, 148, 291, 292, 506, 600}

TargetValues == {0, 100}

TargetTypes == {"P2PKH", "P2WPKH"}

SeedStreams == {<<1>>, <<2, 0>>, <<0, 1, 2>>}

Seeds == {NoSeed} \cup {Seeded(st) : st \in SeedStreams}

\* the search starts from the budget of the code, and from a small one that
\* a few coins exhaust
Budgets == {SmallBudget, BNB_TRIES}

SeqsUpTo(S, lo, hi) == UNION {[1..k -> S] : k \in lo..hi}

CoinSeqs == SeqsUpTo({Coin(v, "P2PKH", "wallet") : v \in CoinValues}, 0, MaxCoins)

TargetSeqs ==
  SeqsUpTo({Coin(v, t, "payee") : v \in TargetValues, t \in TargetTypes}, 1, MaxTargets)

FeeRates == 0..MaxFeeRate

GoodInputKeys ==
  {PlainKey("P2PKH"), PlainKey("P2WPKH"),
   Key("MULTISIG-P2SH", <<(<<Num(2), Num(3)>>)>>),
   Key("MULTISIG-P2WSH", <<(<<Num(1), Num(2)>>)>>)}

\* an unknown tag, a multisig key without ':', with two ':', with one number,
\* with a non-numeric number, with three numbers, of an unknown kind
BadInputKeys ==
  {PlainKey("P2TR"),
   PlainKey("MULTISIG-P2SH"),
   Key("MULTISIG-P2SH", <<(<<Num(2), Num(3)>>), (<<Num(1)>>)>>),
   Key("MULTISIG-P2SH", <<(<<Num(2)>>)>>),
   Key("MULTISIG-P2WSH", <<(<<NaN, Num(3)>>)>>),
   Key("MULTISIG-P2SH", <<(<<Num(2), Num(3), Num(4)>>)>>),
   Key("MULTISIG-P2TR", <<(<<Num(2), Num(3)>>)>>)}

InputKeys == GoodInputKeys \cup BadInputKeys

OutputKeys == {PlainKey("P2PKH"), PlainKey("P2WPKH"), PlainKey("P2TR")}

Counts == {IntCount(-1), IntCount(0), IntCount(1), FracCount, BigCount}

OutputCounts == {IntCount(1), FracCount}

DistinctKeys(m) == \A i, j \in 1..Len(m) : i # j => m[i].key # m[j].key

InputMaps ==
  {m \in SeqsUpTo({Entry(k, c) : k \in InputKeys, c \in Counts}, 0, MaxInputKeys) :
     DistinctKeys(m)}

OutputMaps == SeqsUpTo({Entry(k, c) : k \in OutputKeys, c \in OutputCounts}, 0, 1)

NoGbc == [threw |-> "none", ret |-> Num(0), totalWeight |-> Num(0), hasWitness |-> FALSE]

NoSelection == Selection(0, <<>>, <<>>)

VARIABLES
  targets, feePerByte, coins,   \* the arguments of the selection functions
  seed,                         \* the seed argument
  pc,                           \* "idle", "bnb" (inside _branchAndBound), "done"
  op,                           \* the function called
  ftCoins,                      \* the coins handed to findTarget
  result,                       \* the Selection returned
  sortedCoins, targetForMatch, matchRange,     \* bnb's locals
  budget, bnbTries, stack, ret,
  visited,                      \* calls of _branchAndBound so far
  rngCalls, mathRandomCalls,    \* calls of the seeded generator, of Math.random
  gbcInputs, gbcOutputs, gbc    \* getByteCount's arguments and outcome

vars ==
  <<targets, feePerByte, coins, seed, pc, op, ftCoins, result, sortedCoins,
    targetForMatch, matchRange, budget,
    bnbTries, stack, ret, visited, rngCalls, mathRandomCalls, gbcInputs, gbcOutputs, gbc>>

\* what bnb computes before the search
bnbArgs == <<sortedCoins, targetForMatch, matchRange, budget>>

bnbVars == <<bnbArgs, bnbTries, stack, ret, visited, rngCalls>>

gbcVars == <<gbcInputs, gbcOutputs, gbc>>

argVars == <<targets, feePerByte, coins>>

Idle ==
  /\ seed = NoSeed /\ pc = "idle" /\ op = "none" /\ ftCoins = <<>>
  /\ result = NoSelection
  /\ sortedCoins = <<>> /\ targetForMatch = 0 /\ matchRange = 0 /\ budget = 0 /\ bnbTries = 0 /\ stack = <<>> /\ ret = <<>>
  /\ visited = 0 /\ rngCalls = 0 /\ mathRandomCalls = 0
  /\ gbc = NoGbc

Init ==
  /\ targets \in TargetSeqs
  /\ feePerByte \in FeeRates
  /\ coins \in CoinSeqs
  /\ gbcInputs = <<>> /\ gbcOutputs = <<>>
  /\ Idle

\* a function built on findTarget returns
Returns(name, s, order, mathCalls) ==
  /\ pc' = "done"
  /\ op' = name
  /\ seed' = s
  /\ ftCoins' = order
  /\ result' = ft(targets, feePerByte, order, "change")
  /\ mathRandomCalls' = mathRandomCalls + mathCalls

FindTarget ==
  /\ pc = "idle"
  /\ Returns("findTarget", NoSeed, coins, 0)
  /\ UNCHANGED <<argVars, bnbVars, gbcVars>>

SelectAll ==
  /\ pc = "idle"
  /\ pc' = "done"
  /\ op' = "selectAll"
  /\ result' = selectAll(feePerByte, coins, "sweep")
  /\ UNCHANGED <<argVars, seed, ftCoins, mathRandomCalls, bnbVars, gbcVars>>

SingleRandomDraw ==
  /\ pc = "idle"
  /\ \E s \in Seeds : \E order \in ShuffleOutcomes(coins, s) :
       Returns("singleRandomDraw", s, order, ShuffleMathRandomCalls(coins, s))
  /\ UNCHANGED <<argVars, bnbVars, gbcVars>>

DescentDraw ==
  /\ pc = "idle"
  /\ \E order \in SortLte(coins) : Returns("descentDraw", NoSeed, order, 0)
  /\ UNCHANGED <<argVars, bnbVars, gbcVars>>

AscentDraw ==
  /\ pc = "idle"
  /\ \E order \in SortGte(coins) : Returns("ascentDraw", NoSeed, order, 0)
  /\ UNCHANGED <<argVars, bnbVars, gbcVars>>

\* bnb up to the first call of _branchAndBound
BnbStart ==
  /\ pc = "idle"
  /\ pc' = "bnb"
  /\ op' = "branchAndBound"
  /\ seed' \in Seeds
  /\ \E sc \in SortLte(coins) : sortedCoins' = effectiveCoins(feePerByte, sc)
  /\ targetForMatch' = TargetForMatch(targets, feePerByte)
  /\ matchRange' = MatchRange(feePerByte)
  /\ budget' \in Budgets
  /\ bnbTries' = budget'
  /\ stack' = <<Frame(0, <<>>, 0, "call")>>
  /\ UNCHANGED <<argVars, ftCoins, result, ret, visited, rngCalls, mathRandomCalls, gbcVars>>

Top == stack[Len(stack)]

Pop == SubSeq(stack, 1, Len(stack) - 1)

AtCall == pc = "bnb" /\ stack # <<>> /\ Top.stage = "call"

\* a call of _branchAndBound that returns without recursing
BnbLeaf(value) ==
  /\ bnbTries' = bnbTries - 1
  /\ visited' = visited + 1
  /\ stack' = Pop
  /\ ret' = value
  /\ UNCHANGED <<argVars, seed, pc, op, ftCoins, result, bnbArgs,
                 rngCalls, mathRandomCalls, gbcVars>>

BnbCut ==
  /\ AtCall
  /\ CutBranch(Top.effValue, targetForMatch, matchRange)
  /\ BnbLeaf(<<>>)

BnbMatch ==
  /\ AtCall
  /\ ~CutBranch(Top.effValue, targetForMatch, matchRange)
  /\ IsMatch(Top.effValue, targetForMatch)
  /\ BnbLeaf(Top.currentSelection)

BnbMaxTries ==
  /\ AtCall
  /\ ~CutBranch(Top.effValue, targetForMatch, matchRange)
  /\ ~IsMatch(Top.effValue, targetForMatch)
  /\ MaxTriesReached(bnbTries - 1)
  /\ BnbLeaf(<<>>)

BnbEndOfBranch ==
  /\ AtCall
  /\ ~CutBranch(Top.effValue, targetForMatch, matchRange)
  /\ ~IsMatch(Top.effValue, targetForMatch)
  /\ ~MaxTriesReached(bnbTries - 1)
  /\ EndOfBranch(Top.depth, sortedCoins)
  /\ BnbLeaf(<<>>)

\* a call that recurses: the branch order is drawn, the first call is made
Explores ==
  /\ AtCall
  /\ ~CutBranch(Top.effValue, targetForMatch, matchRange)
  /\ ~IsMatch(Top.effValue, targetForMatch)
  /\ ~MaxTriesReached(bnbTries - 1)
  /\ ~EndOfBranch(Top.depth, sortedCoins)

BnbBranch(m, stage, call) ==
  /\ bnbTries' = bnbTries - 1
  /\ visited' = visited + 1
  /\ rngCalls' = IF seed.seeded THEN rngCalls + 1 ELSE rngCalls
  /\ mathRandomCalls' = IF RngTruthy(seed, rngCalls) THEN mathRandomCalls
                        ELSE mathRandomCalls + 1
  /\ stack' = Append([stack EXCEPT ![Len(stack)].stage = stage], call)
  /\ UNCHANGED <<argVars, seed, pc, op, ftCoins, result, bnbArgs, ret, gbcVars>>

BnbIncludeFirst ==
  /\ Explores
  /\ \E m \in BOOLEAN :
       /\ IncludeFirst(seed, rngCalls, m)
       /\ BnbBranch(m, "include", IncludeCall(Top, sortedCoins, feePerByte))

BnbExcludeFirst ==
  /\ Explores
  /\ \E m \in BOOLEAN :
       /\ ~IncludeFirst(seed, rngCalls, m)
       /\ BnbBranch(m, "exclude", ExcludeCall(Top))

AtReturn == pc = "bnb" /\ stack # <<>> /\ Top.stage # "call"

\* !isEmpty(include) / !isEmpty(exclude): return it
BnbReturnFirst ==
  /\ AtReturn
  /\ ret # <<>>
  /\ stack' = Pop
  /\ UNCHANGED <<argVars, seed, pc, op, ftCoins, result, bnbArgs, bnbTries,
                 ret, visited, rngCalls, mathRandomCalls, gbcVars>>

\* otherwise return the other call
BnbSecond ==
  /\ AtReturn
  /\ ret = <<>>
  /\ stack' = [stack EXCEPT ![Len(stack)] =
                 IF Top.stage = "include" THEN ExcludeCall(Top)
                 ELSE IncludeCall(Top, sortedCoins, feePerByte)]
  /\ UNCHANGED <<argVars, seed, pc, op, ftCoins, result, bnbArgs, bnbTries,
                 ret, visited, rngCalls, mathRandomCalls, gbcVars>>

\* bnbSelection is not empty
BnbReturnMatch ==
  /\ pc = "bnb" /\ stack = <<>>
  /\ ret # <<>>
  /\ pc' = "done"
  /\ result' = MatchSelection(ret, targets)
  /\ UNCHANGED <<argVars, seed, op, ftCoins, bnbArgs, bnbTries, stack,
                 ret, visited, rngCalls, mathRandomCalls, gbcVars>>

\* bnbSelection is empty: singleRandomDraw over sortedCoins with the same seed
BnbFallback ==
  /\ pc = "bnb" /\ stack = <<>>
  /\ ret = <<>>
  /\ pc' = "done"
  /\ \E order \in ShuffleOutcomes(sortedCoins, seed) :
       /\ ftCoins' = order
       /\ result' = ft(targets, feePerByte, order, "change")
  /\ mathRandomCalls' = mathRandomCalls + ShuffleMathRandomCalls(sortedCoins, seed)
  /\ UNCHANGED <<argVars, seed, op, bnbArgs, bnbTries, stack,
                 ret, visited, rngCalls, gbcVars>>

BnbStep ==
  \/ BnbCut \/ BnbMatch \/ BnbMaxTries \/ BnbEndOfBranch
  \/ BnbIncludeFirst \/ BnbExcludeFirst
  \/ BnbReturnFirst \/ BnbSecond
  \/ BnbReturnMatch \/ BnbFallback

Next ==
  \/ FindTarget \/ SelectAll \/ SingleRandomDraw \/ DescentDraw \/ AscentDraw
  \/ BnbStart \/ BnbStep

Spec == Init /\ [][Next]_vars

(***************************************************************************)
(* getByteCount on type-count maps of every shape.                         *)
(***************************************************************************)
InitBytes ==
  /\ targets = <<>> /\ feePerByte = 0 /\ coins = <<>>
  /\ gbcInputs \in InputMaps
  /\ gbcOutputs \in OutputMaps
  /\ Idle

GetByteCount ==
  /\ pc = "idle"
  /\ pc' = "done"
  /\ op' = "getByteCount"
  /\ gbc' = getByteCount(gbcInputs, gbcOutputs)
  /\ UNCHANGED <<argVars, seed, ftCoins, result, mathRandomCalls, bnbVars,
                 gbcInputs, gbcOutputs>>

NextBytes == GetByteCount

SpecBytes == InitBytes /\ [][NextBytes]_vars

(***************************************************************************)
(* Properties.                                                              *)
(***************************************************************************)
Done == pc = "done"

\* the Selection was built by findTarget: a direct call, a draw, or bnb's
\* fallback
ViaFindTarget ==
  /\ Done
  /\ \/ op \in {"findTarget", "singleRandomDraw", "descentDraw", "ascentDraw"}
     \/ op = "branchAndBound" /\ ret = <<>>

\* the Selection is bnb's exact match
ViaMatch == Done /\ op = "branchAndBound" /\ ret # <<>>

RECURSIVE SumInputBytes(_)
SumInputBytes(cs) == IF cs = <<>> THEN 0 ELSE InputBytes(Head(cs)) + SumInputBytes(Tail(cs))

RECURSIVE SumEffectiveValues(_)
SumEffectiveValues(cs) ==
  IF cs = <<>> THEN 0
  ELSE effectiveValue(feePerByte, Head(cs)) + SumEffectiveValues(Tail(cs))

TargetTotal == SumValues(targets)

\* the fee of the targets' bytes and of the bytes of the inputs cs
AccumulatedFee(cs) == (transactionBytes(<<>>, targets) + SumInputBytes(cs)) * feePerByte

\* the coins findTarget could take, in the order it sees them
Eligible == effectiveCoins(feePerByte, ftCoins)

Prefix(cs, k) == SubSeq(cs, 1, k)

\* C1: whenever a function returns a Selection with inputs, the values of the
\* inputs add up to the values of the outputs plus the fee.
C1_ValueConserved ==
  (Done /\ result.inputs # <<>>) =>
    SumValues(result.inputs) = SumValues(result.outputs) + result.fee

\* bnb fell back to the random draw, which took coins, paid a fee and gave change
C1_Witness ==
  /\ ViaFindTarget /\ op = "branchAndBound"
  /\ Len(result.inputs) = 2
  /\ result.fee > 0
  /\ Len(result.outputs) = Len(targets) + 1

\* C2 as stated: whenever findTarget does not fund the targets, the inputs are
\* empty and the outputs are the targets, with or without spendable coins.
C2_FailureKeepsTargets ==
  (ViaFindTarget /\ result.inputs = <<>>) => result.outputs = targets

\* C2 as amended: an unfunded findTarget returns no inputs; with spendable coins
\* the outputs are the targets and the fee is the fee accumulated over all of
\* them, which their value does not cover; without any spendable coin the
\* Selection is empty: fee 0, no inputs and no outputs.
C2_FailureSelection ==
  (ViaFindTarget /\ result.inputs = <<>>) =>
    IF Eligible = <<>>
    THEN result = Selection(0, <<>>, <<>>)
    ELSE /\ result.outputs = targets
         /\ result.fee = AccumulatedFee(Eligible)
         /\ SumValues(Eligible) < TargetTotal + result.fee

\* spendable coins that do not cover target and fee
C2_Witness ==
  /\ ViaFindTarget /\ op = "findTarget"
  /\ result.inputs = <<>>
  /\ Len(Eligible) = 2
  /\ feePerByte > 0
  /\ result.outputs = targets

\* does the prefix of length k cover the targets and its own fee
Covers(cs, k) == SumValues(Prefix(cs, k)) >= TargetTotal + AccumulatedFee(Prefix(cs, k))

\* C3: the inputs findTarget selects are the shortest prefix of the eligible
\* coins that covers the targets plus the fee accumulated for it: no coin is
\* added once the total covers them, equality included.  (The empty prefix is
\* left out: findTarget always takes a first coin.)
C3_ShortestCoveringPrefix ==
  (ViaFindTarget /\ result.inputs # <<>>) =>
    /\ result.inputs = Prefix(Eligible, Len(result.inputs))
    /\ Covers(Eligible, Len(result.inputs))
    /\ \A k \in 1..(Len(result.inputs) - 1) : ~Covers(Eligible, k)

\* extra of a funded Selection: the inputs' value less the targets and the
\* fee accumulated for the inputs
Extra == SumValues(result.inputs) - TargetTotal - AccumulatedFee(result.inputs)

ChangeFee == changeBytes * feePerByte

\* C4: a funded findTarget emits a change output exactly when extra less the
\* change fee reaches the dust threshold; the change is then worth
\* extra - changeFee and the fee grows by changeFee; otherwise the outputs are
\* the targets and the whole extra goes to the fee.
C4_DustPolicy ==
  (ViaFindTarget /\ result.inputs # <<>>) =>
    IF Extra - ChangeFee >= dustThreshold(feePerByte)
    THEN /\ result.outputs = Append(targets, Coin(Extra - ChangeFee, "P2PKH", "change"))
         /\ result.fee = AccumulatedFee(result.inputs) + ChangeFee
    ELSE /\ result.outputs = targets
         /\ result.fee = AccumulatedFee(result.inputs) + Extra

\* an extra that pays the change fee and still misses the dust threshold
\* goes to the fee
C4_Witness ==
  /\ ViaFindTarget /\ result.inputs # <<>>
  /\ feePerByte > 0
  /\ Extra > ChangeFee
  /\ Extra - ChangeFee < dustThreshold(feePerByte)
  /\ result.outputs = targets
  /\ result.fee = AccumulatedFee(result.inputs) + Extra

\* the funds suffice: the effective values of the coins bnb keeps cover
\* targetForMatch
FundsSuffice == SumEffectiveValues(sortedCoins) >= targetForMatch

\* C5 as stated: whenever the funds suffice, branchAndBound returns inputs.
C5_ResultWheneverFunded ==
  (Done /\ op = "branchAndBound" /\ FundsSuffice) => result.inputs # <<>>

\* C5 as amended: whenever the funds suffice and at least one coin has a
\* positive effective value, branchAndBound returns inputs.
C5_ResultWhenFundedByCoins ==
  (Done /\ op = "branchAndBound" /\ FundsSuffice /\ sortedCoins # <<>>) =>
    result.inputs # <<>>

\* no exact match, and the fallback funds the targets from two coins
C5_Witness ==
  /\ Done /\ op = "branchAndBound" /\ FundsSuffice
  /\ ret = <<>>
  /\ budget = BNB_TRIES
  /\ Len(sortedCoins) = 2
  /\ Len(result.inputs) = 2

\* a coin worth the targets plus the fee of spending it alone
IsExactCoin(c) ==
  c.value = TargetTotal + transactionBytes(<<c>>, targets) * feePerByte

HasExactCoin == \E i \in 1..Len(coins) : IsExactCoin(coins[i])

\* C6 as stated: with a coin worth exactly the targets plus the fee of spending
\* it alone in the coin set, branchAndBound (with the budget of the code) returns
\* that coin alone and the targets without change.  (Stated for a coin of
\* positive value: a coin worth 0 is never eligible.)
C6_ExactCoinReturned ==
  (/\ Done /\ op = "branchAndBound" /\ budget = BNB_TRIES
   /\ HasExactCoin /\ targetForMatch > 0) =>
    /\ Len(result.inputs) = 1
    /\ IsExactCoin(result.inputs[1])
    /\ result.outputs = targets

\* C6 as amended: with such a coin of positive value in the coin set, a search
\* that does not run out of tries returns an exact match: some coins whose
\* effective values add up to targetForMatch or at most matchRange more (not
\* always the exact coin), the targets without change, and the rest as fee.
C6_ExactMatchReturned ==
  (/\ Done /\ op = "branchAndBound" /\ HasExactCoin
   /\ targetForMatch > 0
   /\ ~MaxTriesReached(bnbTries)) =>
    /\ ret # <<>>
    /\ result.inputs = ret
    /\ SumEffectiveValues(result.inputs) >= targetForMatch
    /\ SumEffectiveValues(result.inputs) <= targetForMatch + matchRange
    /\ result.outputs = targets
    /\ result.fee = SumValues(result.inputs) - TargetTotal

\* the exact coin is in the set with another coin, and the match is the other
C6_Witness ==
  /\ ViaMatch /\ HasExactCoin /\ targetForMatch > 0
  /\ budget = BNB_TRIES
  /\ Len(result.inputs) = 1
  /\ ~IsExactCoin(result.inputs[1])
  /\ result.outputs = targets

\* C7: with a seed, no decision of singleRandomDraw or branchAndBound is taken
\* from Math.random: the Selection depends on the arguments and the seed only.
C7_SeededNeverUsesMathRandom == seed.seeded => mathRandomCalls = 0

BadCount(m) == \E i \in 1..Len(m) : checkUInt53Throws(m[i].count)

\* KIND:m-n with a KIND of the IO table
WellFormedMultisig(key) ==
  /\ ~IO_TYPES_inputs(key.tag).nan
  /\ Len(key.rest) = 1
  /\ Len(key.rest[1]) = 2
  /\ \A i \in 1..2 : ~key.rest[1][i].nan

MalformedMultisig(m) ==
  \E i \in 1..Len(m) : StartsWithMULTISIG(m[i].key) /\ ~WellFormedMultisig(m[i].key)

\* C8: getByteCount throws or returns a non-negative integer; it throws on
\* every bad count and on every malformed multisig key, and never returns NaN.
C8_ThrowsOrInteger ==
  (Done /\ op = "getByteCount") =>
    /\ gbc.threw # "none" \/ (~gbc.ret.nan /\ gbc.ret.v >= 0)
    /\ (BadCount(gbcInputs) \/ BadCount(gbcOutputs)) => gbc.threw # "none"
    /\ MalformedMultisig(gbcInputs) => gbc.threw # "none"

RECURSIVE SumInputWeights(_)
SumInputWeights(m) ==
  IF m = <<>> THEN Num(0)
  ELSE NumAdd(InputKeyWeight(Head(m).key, Head(m).count), SumInputWeights(Tail(m)))

RECURSIVE SumOutputWeights(_)
SumOutputWeights(m) ==
  IF m = <<>> THEN Num(0)
  ELSE NumAdd(NumMul(OutputWeightOfKey(Head(m).key), CountNum(Head(m).count)),
              SumOutputWeights(Tail(m)))

RECURSIVE SumCounts(_)
SumCounts(m) == IF m = <<>> THEN 0 ELSE Head(m).count.v + SumCounts(Tail(m))

\* the weight without the witness overhead
WeightWithoutWitness ==
  NumAdd(NumAdd(SumInputWeights(gbcInputs), SumOutputWeights(gbcOutputs)),
         Num(8 * 4 + varIntLength(SumCounts(gbcInputs)) * 4
               + varIntLength(SumCounts(gbcOutputs)) * 4))

WitnessTypeUsed(m) == \E i \in 1..Len(m) : ContainsW(m[i].key) /\ m[i].count.v # 0

WitnessKeyPresent(m) == \E i \in 1..Len(m) : ContainsW(m[i].key)

Returned == Done /\ op = "getByteCount" /\ gbc.threw = "none" /\ ~gbc.ret.nan

\* C9 as stated: the 2 weight units of the witness marker and flag are added
\* once exactly when an input type or an output type with a non-zero count is
\* a witness type.
C9_WitnessOverheadAnyType ==
  Returned =>
    gbc.totalWeight =
      NumAdd(WeightWithoutWitness,
             Num(IF WitnessTypeUsed(gbcInputs) \/ WitnessTypeUsed(gbcOutputs)
                 THEN 2 ELSE 0))

\* C9 as amended: the 2 weight units are added once exactly when a key of the
\* inputs map is a witness type, whatever its count; the output types never
\* add them.
C9_WitnessOverheadInputKeys ==
  Returned =>
    /\ gbc.totalWeight =
         NumAdd(WeightWithoutWitness, Num(IF WitnessKeyPresent(gbcInputs) THEN 2 ELSE 0))
    /\ gbc.ret = NumCeilDiv4(gbc.totalWeight)

\* a non-witness input and a witness output: no overhead
C9_Witness ==
  /\ Returned
  /\ gbcInputs = <<Entry(PlainKey("P2PKH"), IntCount(1))>>
  /\ gbcOutputs = <<Entry(PlainKey("P2WPKH"), IntCount(1))>>
  /\ gbc.totalWeight = WeightWithoutWitness

\* a call of _branchAndBound
Visits == pc = "bnb" /\ visited' = visited + 1

\* the steps a call at depth d can still take with n coins: a leaf takes one,
\* a node its own step, the first subtree, the step to the second call and
\* the second subtree
RECURSIVE SubtreeSteps(_, _)
SubtreeSteps(d, n) == IF d >= n THEN 1 ELSE 2 + 2 * SubtreeSteps(d + 1, n)

\* the steps left to a frame once the frames above it have returned
FrameSteps(f, n) ==
  IF f.stage = "call" THEN SubtreeSteps(f.depth, n)
  ELSE 1 + SubtreeSteps(f.depth + 1, n)

RECURSIVE StackSteps(_, _)
StackSteps(st, n) ==
  IF st = <<>> THEN 0 ELSE FrameSteps(Head(st), n) + StackSteps(Tail(st), n)

\* a bound on the steps left to the search
RemainingSteps ==
  IF pc = "bnb" THEN 1 + StackSteps(stack, Len(sortedCoins)) ELSE 0

\* the steps of the search inside _branchAndBound
BnbRecursion ==
  \/ BnbCut \/ BnbMatch \/ BnbMaxTries \/ BnbEndOfBranch
  \/ BnbIncludeFirst \/ BnbExcludeFirst
  \/ BnbReturnFirst \/ BnbSecond

\* C10: the search ends and the budget is enforced: every call takes one try,
\* a call made with the tries used up returns without recursing, at most
\* budget + n calls are made and no call is deeper than n, n the number of
\* eligible coins; the search can always step until it is done, and every step
\* lowers a bound on the steps that are left.
C10_TryBudgetEnforced ==
  /\ [](pc \in {"bnb", "done"} /\ op = "branchAndBound" =>
          /\ bnbTries = budget - visited
          /\ visited <= budget + Len(sortedCoins)
          /\ Len(stack) <= Len(sortedCoins) + 1
          /\ \A i \in 1..Len(stack) : stack[i].depth <= Len(sortedCoins))
  /\ [][(Visits /\ bnbTries' < 1) => Len(stack') < Len(stack)]_vars
  /\ [](pc = "bnb" /\ stack # <<>> => ENABLED BnbRecursion)
  /\ [][pc = "bnb" => RemainingSteps' < RemainingSteps]_vars

\* the tries ran out, calls were still made, and the search ended
C10_Witness ==
  /\ Done /\ op = "branchAndBound"
  /\ budget = SmallBudget
  /\ visited = budget + Len(sortedCoins)
  /\ Len(sortedCoins) = MaxCoins

====
